---- MODULE Spec2Model ----
(***************************************************************************)
(* Model of the mindmap generation job pipeline of Sensa-AI:               *)
(*   src/.aws-sam/build/SensaMindmapFunction/sensa_mindmap_generator.py    *)
(*                                                                         *)
(* Two specifications share the definitions below.                         *)
(*   SpecPipeline  one queued job, followed statement by statement through *)
(*                 process_mindmap_generation (generation, graph build,    *)
(*                 hierarchy BFS, layout) and the per-message try/except   *)
(*                 of handle_sqs_event, over every bounded generation      *)
(*                 result.                                                 *)
(*   Spec          the Lambda handler under its idempotency decorator:     *)
(*                 concurrent activations on SQS batches and API events.   *)
(***************************************************************************)
EXTENDS Integers, Sequences, FiniteSets, TLC

VARIABLES
    \* ---- one job inside process_mindmap_generation (SpecPipeline) ----
    response,      \* what genai_client.generate_content / json.loads yield
    pc,            \* position of the job in the pipeline
    G,             \* the nx.DiGraph: node order, attribute dicts, adjacency
    root_nodes,    \* line 381
    queue,         \* the BFS deque of <<node_id, level>>
    visited,       \* the BFS visited set
    layout_used,   \* which layout code path ran: "none", "pygraphviz", "spring"
    final_data,    \* the returned dict, or NoResult
    statuses,      \* update_job_status calls of the job, in order
    results,       \* the entries handle_sqs_event appended for the job
    status_rows,   \* rows update_job_status inserted into epistemic_driver_history
    no_position,   \* nodes the layout engine gave no usable position
    layout_calls,  \* layout algorithms the job invoked
    \* ---- the handler and its idempotency guard (Spec) ----
    now,           \* wall clock, seconds
    store,         \* the DynamoDB idempotency table: key -> record
    act,           \* per activation: phase, event, key, outcome
    genai_client,  \* the module-level global client handle
    queue_url,     \* os.environ.get('SQS_QUEUE_URL')
    sent           \* message bodies handed to sqs_client.send_message

pvars == <<response, pc, G, root_nodes, queue, visited, layout_used, final_data, statuses, results,
           status_rows, no_position, layout_calls>>
hvars == <<now, store, act, genai_client, queue_url, sent>>
vars == <<response, pc, G, root_nodes, queue, visited, layout_used, final_data, statuses, results,
          status_rows, no_position, layout_calls, now, store, act, genai_client, queue_url, sent>>

-----------------------------------------------------------------------------
(* Bounds of the model *)

NodeIds == {"a", "b", "c"}
MaxNodes == Cardinality(NodeIds)   \* longest node list of a generation result
MaxEdges == 3                      \* longest edge list of a generation result
IdRank == [n \in NodeIds |-> CASE n = "a" -> 1 [] n = "b" -> 2 [] n = "c" -> 3]

\* Python's None
None == "None"
NoResult == [none |-> TRUE]

-----------------------------------------------------------------------------
(* Python dict and list helpers *)

NodeKeys == {"id", "label", "description"}

DictSet(d, k, v) == [x \in (DOMAIN d) \cup {k} |-> IF x = k THEN v ELSE d[x]]
DictUpdate(d, e) == [x \in (DOMAIN d) \cup (DOMAIN e) |-> IF x \in DOMAIN e THEN e[x] ELSE d[x]]
DictDel(d, k) == [x \in (DOMAIN d) \ {k} |-> d[x]]
EmptyDict == [x \in {} |-> None]

Range(s) == {s[i] : i \in DOMAIN s}
SeqsUpTo(S, n) == UNION {[1..k -> S] : k \in 0..n}
Contains(s, x) == \E i \in DOMAIN s : s[i] = x

-----------------------------------------------------------------------------
(* Generation results *)

\* The i-th node descriptor of a result: content strings are opaque, so the
\* label and description carry the descriptor's position, which tells two
\* descriptors with the same id apart.
MkNode(id, i) == [id |-> id, label |-> <<"label", i>>, description |-> <<"description", i>>]
MkEdge(s, t) == [source |-> s, target |-> t]

\* Node ids are opaque to the code: only lists naming ids in first-use order
\* a, b, c are enumerated.
Canonical(s) ==
    \A i \in DOMAIN s :
        \/ IdRank[s[i]] = 1
        \/ \E j \in 1..(i - 1) : IdRank[s[j]] >= IdRank[s[i]] - 1

IdSeqs == {s \in SeqsUpTo(NodeIds, MaxNodes) : Canonical(s)}
WellFormedNodeLists == {[i \in DOMAIN s |-> MkNode(s[i], i)] : s \in IdSeqs}
\* the same lists with one required field missing from one descriptor
DefectiveNodeLists ==
    {[i \in DOMAIN l |-> IF i = p THEN DictDel(l[i], k) ELSE l[i]] :
        <<l, p, k>> \in {t \in WellFormedNodeLists \X (1..MaxNodes) \X NodeKeys : t[2] <= Len(t[1])}}
\* content values a descriptor must not have: the empty string, and a value
\* that is not a string (a number)
EmptyString == <<"", 0>>
NotAString == <<"int", 7>>
InvalidValues(k) == IF k = "id" THEN {""} ELSE {EmptyString, NotAString}
\* lists of one or two descriptors, all fields present, one of them invalid
WithInvalid(l, p, k, v) == [i \in DOMAIN l |-> IF i = p THEN [l[i] EXCEPT ![k] = v] ELSE l[i]]
InvalidNodeLists ==
    UNION {{WithInvalid(t[1], t[2], k, v) : v \in InvalidValues(k)} :
              t \in {u \in WellFormedNodeLists \X (1..2) : Len(u[1]) <= 2 /\ u[2] <= Len(u[1])},
              k \in NodeKeys}
EdgeDescriptors == {MkEdge(s, t) : s \in NodeIds, t \in NodeIds}
EdgeLists == SeqsUpTo(EdgeDescriptors, MaxEdges)

JsonOf(nodes, edges) == [kind |-> "json", data |-> [nodes |-> nodes, edges |-> edges]]
Responses ==
    {[kind |-> "raise"], [kind |-> "bad_json"],
     [kind |-> "json", data |-> [nodes |-> <<>>]],
     [kind |-> "json", data |-> [edges |-> <<>>]]}
    \cup {JsonOf(n, e) : n \in WellFormedNodeLists, e \in EdgeLists}
    \cup {JsonOf(n, e) : n \in DefectiveNodeLists, e \in SeqsUpTo(EdgeDescriptors, 1)}
    \cup {JsonOf(n, e) : n \in InvalidNodeLists, e \in SeqsUpTo(EdgeDescriptors, 1)}

-----------------------------------------------------------------------------
(* The structure check of lines 348-350 *)

\* mutant: an empty list counts as a missing field
MissingRequired_Falsy(data) ==
    \/ ~({"nodes", "edges"} \subseteq DOMAIN data)
    \/ data.nodes = <<>>
    \/ data.edges = <<>>

\* line 349: 'nodes' not in mindmap_data or 'edges' not in mindmap_data
MissingRequired(data) == ~({"nodes", "edges"} \subseteq DOMAIN data)

-----------------------------------------------------------------------------
(* networkx DiGraph: insertion-ordered nodes, per-node attribute dict,       *)
(* insertion-ordered successor lists                                         *)

EmptyGraph == [order |-> <<>>, attrs |-> EmptyDict, adj |-> EmptyDict]
Nodes(g) == Range(g.order)

\* mutant: a node goes to the front of the node order
add_node_Front(g, n, kw) ==
    [order |-> <<n>> \o SelectSeq(g.order, LAMBDA m : m # n),
     attrs |-> DictSet(g.attrs, n, IF n \in Nodes(g) THEN DictUpdate(g.attrs[n], kw) ELSE kw),
     adj |-> IF n \in Nodes(g) THEN g.adj ELSE DictSet(g.adj, n, <<>>)]

\* G.add_node(n, **kw): a known node keeps its place and has its dict updated
add_node(g, n, kw) ==
    IF n \in Nodes(g)
    THEN [g EXCEPT !.attrs = DictSet(g.attrs, n, DictUpdate(g.attrs[n], kw))]
    ELSE [order |-> Append(g.order, n),
          attrs |-> DictSet(g.attrs, n, kw),
          adj |-> DictSet(g.adj, n, <<>>)]

\* G.add_edge(u, v, **kw): unknown endpoints are created with an empty dict
EnsureNode(g, n) == IF n \in Nodes(g) THEN g ELSE add_node(g, n, EmptyDict)
Link(g, u, v) ==
    IF Contains(g.adj[u], v) THEN g
    ELSE [g EXCEPT !.adj = DictSet(g.adj, u, Append(g.adj[u], v))]
add_edge(g, u, v) == Link(EnsureNode(EnsureNode(g, u), v), u, v)

in_degree(g, n) == Cardinality({u \in Nodes(g) : Contains(g.adj[u], n)})

\* lines 355-366: the node loop; node['id'], node['label'], node['description']
\* raise KeyError on a missing key
node_attrs(node) ==
    [id |-> node.id, label |-> node.label, description |-> node.description,
     level |-> 0, parent_id |-> None]

\* mutant: a defective descriptor is skipped instead of raising
AddNodeStep_Skip(g, node) ==
    IF NodeKeys \subseteq DOMAIN node
    THEN [ok |-> TRUE, G |-> add_node(g, node.id, node_attrs(node))]
    ELSE [ok |-> TRUE, G |-> g]

AddNodeStep(g, node) ==
    IF NodeKeys \subseteq DOMAIN node
    THEN [ok |-> TRUE, G |-> add_node(g, node.id, node_attrs(node))]
    ELSE [ok |-> FALSE, G |-> g]

RECURSIVE AddNodes(_, _, _), AddNodesAfter(_, _, _)
AddNodes(g, nodes, i) ==
    IF i > Len(nodes) THEN [ok |-> TRUE, G |-> g]
    ELSE AddNodesAfter(AddNodeStep(g, nodes[i]), nodes, i)
\* a KeyError leaves the loop
AddNodesAfter(r, nodes, i) == IF r.ok THEN AddNodes(r.G, nodes, i + 1) ELSE r

\* lines 368-376: the edge loop
AddEdgeStep(g, edge) == add_edge(g, edge.source, edge.target)

RECURSIVE AddEdges(_, _, _)
AddEdges(g, edges, i) ==
    IF i > Len(edges) THEN g
    ELSE AddEdges(AddEdgeStep(g, edges[i]), edges, i + 1)

\* lines 352-376
BuildEdges(r, edges) == IF r.ok THEN [ok |-> TRUE, G |-> AddEdges(r.G, edges, 1)] ELSE r
BuildGraph(data) == BuildEdges(AddNodes(EmptyGraph, data.nodes, 1), data.edges)

-----------------------------------------------------------------------------
(* Hierarchy computation, lines 379-401 *)

\* mutant: with no zero in-degree node, every node is taken as a root
RootNodes_Mut(g) ==
    LET r == SelectSeq(g.order, LAMBDA n : in_degree(g, n) = 0)
    IN IF r = <<>> THEN g.order ELSE r

\* mutant: every node seeds the traversal
RootNodes_All(g) == g.order

\* line 381
RootNodes(g) == SelectSeq(g.order, LAMBDA n : in_degree(g, n) = 0)

\* line 386
InitialQueue(roots) == [i \in DOMAIN roots |-> <<roots[i], 0>>]

\* mutant: the child is queued at the front, which makes the traversal depth-first
VisitChild_Front(st, child, node_id, level) ==
    [G |-> [st.G EXCEPT !.attrs = DictSet(st.G.attrs, child,
                                          DictSet(st.G.attrs[child], "parent_id", node_id))],
     queue |-> <<<<child, level + 1>>>> \o st.queue]

\* lines 399-401 for one unvisited child
VisitChild(st, child, node_id, level) ==
    [G |-> [st.G EXCEPT !.attrs = DictSet(st.G.attrs, child,
                                          DictSet(st.G.attrs[child], "parent_id", node_id))],
     queue |-> Append(st.queue, <<child, level + 1>>)]

\* lines 398-401 for the successors of node_id from position i on
RECURSIVE VisitChildren(_, _, _, _, _)
VisitChildren(st, node_id, level, vis, i) ==
    IF i > Len(st.G.adj[node_id]) THEN st
    ELSE IF st.G.adj[node_id][i] \notin vis
    THEN VisitChildren(VisitChild(st, st.G.adj[node_id][i], node_id, level),
                       node_id, level, vis, i + 1)
    ELSE VisitChildren(st, node_id, level, vis, i + 1)

SetLevel(g, node_id, level) ==
    [g EXCEPT !.attrs = DictSet(g.attrs, node_id, DictSet(g.attrs[node_id], "level", level))]
WithVisited(st, vis) == [G |-> st.G, queue |-> st.queue, visited |-> vis]

\* mutant: the popped node's level is not stored
BfsIteration_NoLevel(g, q, vis) ==
    IF Head(q)[1] \in vis
    THEN [G |-> g, queue |-> Tail(q), visited |-> vis]
    ELSE WithVisited(VisitChildren([G |-> g, queue |-> Tail(q)],
                                   Head(q)[1], Head(q)[2], vis \cup {Head(q)[1]}, 1),
                     vis \cup {Head(q)[1]})

\* mutant: a node popped again is handled again
BfsIteration_Revisit(g, q, vis) ==
    WithVisited(VisitChildren([G |-> SetLevel(g, Head(q)[1], Head(q)[2]), queue |-> Tail(q)],
                              Head(q)[1], Head(q)[2], vis \cup {Head(q)[1]}, 1),
                vis \cup {Head(q)[1]})

\* lines 390-401: one iteration of the while loop
BfsIteration(g, q, vis) ==
    IF Head(q)[1] \in vis
    THEN [G |-> g, queue |-> Tail(q), visited |-> vis]
    ELSE WithVisited(VisitChildren([G |-> SetLevel(g, Head(q)[1], Head(q)[2]), queue |-> Tail(q)],
                                   Head(q)[1], Head(q)[2], vis \cup {Head(q)[1]}, 1),
                     vis \cup {Head(q)[1]})

\* lines 389-401: the whole loop
RECURSIVE BfsLoop(_, _, _), BfsLoopFrom(_)
BfsLoop(g, q, vis) == IF q = <<>> THEN g ELSE BfsLoopFrom(BfsIteration(g, q, vis))
BfsLoopFrom(s) == BfsLoop(s.G, s.queue, s.visited)

\* lines 383-401
BfsFromRoots(g, roots) == IF roots # <<>> THEN BfsLoop(g, InitialQueue(roots), {}) ELSE g

\* lines 379-401
ComputeHierarchy(g) == BfsFromRoots(g, RootNodes(g))

\* the code's own reading of a node's level (line 406) and parent
LevelOf(g, n) == IF "level" \in DOMAIN g.attrs[n] THEN g.attrs[n]["level"] ELSE 0
ParentOf(g, n) == IF "parent_id" \in DOMAIN g.attrs[n] THEN g.attrs[n]["parent_id"] ELSE None

-----------------------------------------------------------------------------
(* Layout and result assembly, lines 421-514 *)

\* Coordinates are opaque: what an engine computed for a node, or the literal 0.0
EnginePos(engine, n) == [x |-> <<engine, n, "x">>, y |-> <<engine, n, "y">>]
ZeroPos == [x |-> <<"0.0">>, y |-> <<"0.0">>]

\* mutant: one node without a usable position costs every node its position
DotPositionedNodes_AllZero(g, nopos) ==
    [i \in DOMAIN g.order |->
        DictUpdate(g.attrs[g.order[i]],
                   IF nopos # {} THEN ZeroPos ELSE EnginePos("dot", g.order[i]))]

\* lines 431-453: pygraphviz positions; the nodes in nopos have no parsable 'pos'
DotPositionedNodes(g, nopos) ==
    [i \in DOMAIN g.order |->
        LET n == g.order[i]
        IN DictUpdate(g.attrs[n], IF n \in nopos THEN ZeroPos ELSE EnginePos("dot", n))]

\* numpy's global random generator is in one of these states when a job runs
RngStates == {0, 1}

\* the seed argument: an integer, or None
Seed(n) == <<n>>
NoSeed == <<>>

\* mutant: the seed is not used, the draws come from the global generator
spring_layout_Unseeded(g, k, iterations, seed, np_random) ==
    [n \in Nodes(g) |-> <<"fruchterman_reingold", g.order, g.adj, k, iterations,
                          <<"global", np_random>>, n>>]

\* nx.spring_layout(G, k, iterations, seed): the position of a node is what the
\* Fruchterman-Reingold iteration computes from the graph, k, the iteration
\* count and the stream of random draws for the initial positions. An integer
\* seed gives the call a generator of its own, seeded with it; seed None draws
\* from numpy's global generator, in whatever state it is.
spring_layout(g, k, iterations, seed, np_random) ==
    [n \in Nodes(g) |-> <<"fruchterman_reingold", g.order, g.adj, k, iterations,
                          IF seed = NoSeed THEN <<"global", np_random>> ELSE <<"seeded", seed[1]>>,
                          n>>]

\* lines 475-484: the engine's coordinates scaled by 200
ScaledPos(p) == [x |-> <<"*200", p, "x">>, y |-> <<"*200", p, "y">>]

\* lines 466-486: nx.spring_layout positions under seed 42 and 50 iterations
SpringPositions(g, np_random) ==
    IF Len(g.order) > 0 THEN spring_layout(g, 3, 50, Seed(42), np_random) ELSE EmptyDict

SpringPositionedNodes(g, np_random) ==
    [i \in DOMAIN g.order |->
        DictUpdate(g.attrs[g.order[i]],
                   IF g.order[i] \in DOMAIN SpringPositions(g, np_random)
                   THEN ScaledPos(SpringPositions(g, np_random)[g.order[i]])
                   ELSE ZeroPos)]

\* lines 494-505 (generated_at, a timestamp, is left out)
FinalData(data, positioned_nodes) ==
    [subject |-> "subject",
     nodes |-> positioned_nodes,
     edges |-> data.edges,
     metadata |-> [subject |-> "subject",
                   node_count |-> Len(positioned_nodes),
                   edge_count |-> Len(data.edges),
                   layout_engine |-> "dot"]]

-----------------------------------------------------------------------------
(* One queued job: lines 666-679 and 710-718 of handle_sqs_event around      *)
(* process_mindmap_generation                                                *)

JobId == "j1"

\* mutant: the exception of the insert leaves update_job_status
update_job_status_Raising(rows, job_id, status, result_data, insert_ok) ==
    IF status = "completed" /\ result_data # NoResult /\ insert_ok
    THEN [rows |-> Append(rows, [job_id |-> job_id, status |-> status]), raised |-> FALSE]
    ELSE [rows |-> rows, raised |-> status = "completed" /\ result_data # NoResult]

\* lines 194-244: only a completed status with result data is written to the
\* store, the others are logged; insert_ok tells whether the insert of line
\* 222 succeeds, and its exception is caught and logged (lines 239-244)
update_job_status(rows, job_id, status, result_data, insert_ok) ==
    IF status = "completed" /\ result_data # NoResult /\ insert_ok
    THEN [rows |-> Append(rows, [job_id |-> job_id, status |-> status]), raised |-> FALSE]
    ELSE [rows |-> rows, raised |-> FALSE]

\* lines 710-718: the except clause of the message's try; st are the statuses
\* reported before it
PFail(st, error_msg) ==
    /\ pc' = "failed"
    /\ final_data' = NoResult
    /\ statuses' = Append(st, "failed")
    /\ status_rows' = update_job_status(status_rows, JobId, "failed", NoResult, TRUE).rows
    /\ results' = Append(results, [job_id |-> JobId, status |-> "failed", error |-> error_msg])

\* lines 672-679: the return of process_mindmap_generation and what follows
\* it; an exception leaving update_job_status would reach the except clause
PCompleteWith(data, u) ==
    IF u.raised
    THEN /\ pc' = "failed"
         /\ final_data' = NoResult
         /\ statuses' = statuses \o <<"completed", "failed">>
         /\ status_rows' = u.rows
         /\ results' = Append(results, [job_id |-> JobId, status |-> "failed",
                                         error |-> "status store error"])
    ELSE /\ pc' = "completed"
         /\ final_data' = data
         /\ statuses' = Append(statuses, "completed")
         /\ status_rows' = u.rows
         /\ results' = Append(results, [job_id |-> JobId, status |-> "completed",
                                         node_count |-> Len(data.nodes)])

PComplete(data) ==
    \E insert_ok \in BOOLEAN :
        PCompleteWith(data, update_job_status(status_rows, JobId, "completed", data, insert_ok))

\* line 667, then lines 312-350
PGenerate ==
    /\ pc = "start"
    /\ LET st == Append(statuses, "processing")
       IN IF response.kind = "raise"
          THEN PFail(st, "AI generation failed")
          ELSE IF response.kind = "bad_json"
          THEN PFail(st, "Invalid JSON response from AI")
          ELSE IF MissingRequired(response.data)
          THEN PFail(st, "AI response missing required 'nodes' or 'edges' fields")
          ELSE /\ pc' = "build"
               /\ statuses' = st
               /\ UNCHANGED <<final_data, results, status_rows>>
    /\ UNCHANGED <<response, G, root_nodes, queue, visited, layout_used, no_position, layout_calls>>
    /\ UNCHANGED hvars

\* lines 352-376
PBuild ==
    /\ pc = "build"
    /\ LET r == BuildGraph(response.data)
       IN IF r.ok
          THEN /\ G' = r.G
               /\ pc' = "roots"
               /\ UNCHANGED <<final_data, statuses, results, status_rows>>
          ELSE /\ PFail(statuses, "KeyError")
               /\ UNCHANGED G
    /\ UNCHANGED <<response, root_nodes, queue, visited, layout_used, no_position, layout_calls>>
    /\ UNCHANGED hvars

\* lines 381-387
PFindRoots ==
    /\ pc = "roots"
    /\ root_nodes' = RootNodes(G)
    /\ IF root_nodes' # <<>>
       THEN /\ queue' = InitialQueue(root_nodes')
            /\ pc' = "bfs"
       ELSE /\ queue' = <<>>
            /\ pc' = "layout"
    /\ visited' = {}
    /\ UNCHANGED <<response, G, layout_used, final_data, statuses, results, status_rows,
                   no_position, layout_calls>>
    /\ UNCHANGED hvars

\* lines 389-401: one iteration of the while loop; the loop ends on an empty queue
PBfsStep ==
    /\ pc = "bfs"
    /\ queue # <<>>
    /\ LET s == BfsIteration(G, queue, visited)
       IN /\ G' = s.G
          /\ queue' = s.queue
          /\ visited' = s.visited
          /\ pc' = IF s.queue = <<>> THEN "layout" ELSE "bfs"
    /\ UNCHANGED <<response, root_nodes, layout_used, final_data, statuses, results, status_rows,
                   no_position, layout_calls>>
    /\ UNCHANGED hvars

\* lines 424-458: pygraphviz imports and lays the graph out
PLayoutDot ==
    /\ pc = "layout"
    /\ \E nopos \in {{}} \cup {{n} : n \in Nodes(G)} :
          /\ PComplete(FinalData(response.data, DotPositionedNodes(G, nopos)))
          /\ no_position' = nopos
    /\ layout_used' = "pygraphviz"
    /\ layout_calls' = {"dot"}
    /\ UNCHANGED <<response, G, root_nodes, queue, visited>>
    /\ UNCHANGED hvars

\* lines 460-491: import pygraphviz raises ImportError
PLayoutSpring ==
    /\ pc = "layout"
    /\ \E np_random \in RngStates :
          PComplete(FinalData(response.data, SpringPositionedNodes(G, np_random)))
    /\ layout_used' = "spring"
    /\ no_position' = Nodes(G) \ DOMAIN SpringPositions(G, 0)
    /\ layout_calls' = IF Len(G.order) > 0 THEN {"spring_layout"} ELSE {}
    /\ UNCHANGED <<response, G, root_nodes, queue, visited>>
    /\ UNCHANGED hvars

\* lines 427-428 raise something other than ImportError; lines 509-514 re-raise
PLayoutRaise ==
    /\ pc = "layout"
    /\ PFail(statuses, "layout error")
    /\ layout_used' = "pygraphviz"
    /\ layout_calls' = {"dot"}
    /\ UNCHANGED no_position
    /\ UNCHANGED <<response, G, root_nodes, queue, visited>>
    /\ UNCHANGED hvars

-----------------------------------------------------------------------------
(* The handler's state while only the pipeline is followed, and the          *)
(* pipeline's while only the handler is                                      *)

Acts == {"A1", "A2"}
IdleAct == [phase |-> "idle"]

HandlerIdle ==
    /\ now = 0
    /\ store = EmptyDict
    /\ act = [a \in Acts |-> IdleAct]
    /\ genai_client = None
    /\ queue_url = None
    /\ sent = {}

PipelineIdle ==
    /\ pc = "idle"
    /\ G = EmptyGraph
    /\ root_nodes = <<>>
    /\ queue = <<>>
    /\ visited = {}
    /\ layout_used = "none"
    /\ final_data = NoResult
    /\ statuses = <<>>
    /\ results = <<>>
    /\ status_rows = <<>>
    /\ no_position = {}
    /\ layout_calls = {}

InitPipeline ==
    /\ response \in Responses
    /\ pc = "start"
    /\ G = EmptyGraph
    /\ root_nodes = <<>>
    /\ queue = <<>>
    /\ visited = {}
    /\ layout_used = "none"
    /\ final_data = NoResult
    /\ statuses = <<>>
    /\ results = <<>>
    /\ status_rows = <<>>
    /\ no_position = {}
    /\ layout_calls = {}
    /\ HandlerIdle

NextPipeline ==
    \/ PGenerate
    \/ PBuild
    \/ PFindRoots
    \/ PBfsStep
    \/ PLayoutDot
    \/ PLayoutSpring
    \/ PLayoutRaise

SpecPipeline == InitPipeline /\ [][NextPipeline]_vars

-----------------------------------------------------------------------------
(* Claims about the pipeline, checked under SpecPipeline *)

IsJson == response.kind = "json" /\ {"nodes", "edges"} \subseteq DOMAIN response.data
Built == pc \in {"roots", "bfs", "layout", "completed"} \/ layout_used # "none"
HierarchyDone == pc \in {"layout", "completed"} \/ layout_used # "none"
InputNodes == response.data.nodes
InputEdges == response.data.edges
HasDefectiveNode == IsJson /\ \E i \in DOMAIN InputNodes : ~(NodeKeys \subseteq DOMAIN InputNodes[i])
DeclaredIds == {InputNodes[i].id : i \in {k \in DOMAIN InputNodes : "id" \in DOMAIN InputNodes[k]}}
HasDuplicateIds ==
    /\ IsJson
    /\ \E i, k \in DOMAIN InputNodes :
          /\ i < k
          /\ NodeKeys \subseteq DOMAIN InputNodes[i]
          /\ NodeKeys \subseteq DOMAIN InputNodes[k]
          /\ InputNodes[i].id = InputNodes[k].id
EdgeDeclared(e) == e.source \in DeclaredIds /\ e.target \in DeclaredIds

\* C5: a node descriptor lacking id, label or description fails the whole
\* build: the job never gets past the build, no result (no partial graph) is
\* returned, and once the build has run the job is failed, reported failed
\* to the status store and listed failed in the batch outcome.
C5_MissingFieldFailsBuild ==
    HasDefectiveNode =>
        /\ pc \in {"start", "build", "failed"}
        /\ final_data = NoResult
        /\ G = EmptyGraph
        /\ pc = "failed" =>
              /\ statuses = <<"processing", "failed">>
              /\ Len(results) = 1
              /\ results[1].status = "failed"
              /\ results[1].error = "KeyError"

\* the defect sits behind a well-formed descriptor, which a partial graph would hold
C5_Witness ==
    /\ HasDefectiveNode
    /\ Len(InputNodes) >= 2
    /\ NodeKeys \subseteq DOMAIN InputNodes[1]
    /\ "description" \notin DOMAIN InputNodes[2]
    /\ pc = "failed"

\* C6: an edge with an undeclared endpoint is dropped without failing the
\* job: a completed job's edge list is the declared-endpoint edges of the
\* input, in order, every node of the result is a declared node, and the
\* build does not fail.
C6_DanglingEdgeDropped ==
    (IsJson /\ ~HasDefectiveNode) =>
        /\ pc = "failed" => layout_used # "none"
        /\ pc = "completed" =>
              /\ final_data.edges = SelectSeq(InputEdges, EdgeDeclared)
              /\ \A i \in DOMAIN final_data.nodes :
                    /\ "id" \in DOMAIN final_data.nodes[i]
                    /\ final_data.nodes[i]["id"] \in DeclaredIds

\* C7: a generation result declaring a node id twice fails the build; it is
\* never accepted.
C7_DuplicateIdFailsBuild ==
    HasDuplicateIds => ~Built

\* C8: once the traversal has set a node's parent_id, no later step of the
\* traversal changes it.
C8_ParentFixedOnceSet ==
    [][\A n \in Nodes(G) :
          (pc = "bfs" /\ ParentOf(G, n) # None) => ParentOf(G', n) = ParentOf(G, n)]_vars

-----------------------------------------------------------------------------
(* Trees, for C9 *)

Roots(g) == {n \in Nodes(g) : in_degree(g, n) = 0}
Pred(g, n) == CHOOSE u \in Nodes(g) : Contains(g.adj[u], n)

\* the k-th ancestor chain of n ends in a root
RECURSIVE ReachesRoot(_, _, _)
ReachesRoot(g, n, k) ==
    IF in_degree(g, n) = 0 THEN TRUE
    ELSE IF k = 0 THEN FALSE
    ELSE ReachesRoot(g, Pred(g, n), k - 1)

IsTree(g) ==
    /\ Cardinality(Roots(g)) = 1
    /\ \A n \in Nodes(g) \ Roots(g) : in_degree(g, n) = 1
    /\ \A n \in Nodes(g) : ReachesRoot(g, n, Cardinality(Nodes(g)))

RECURSIVE Depth(_, _)
Depth(g, n) == IF in_degree(g, n) = 0 THEN 0 ELSE 1 + Depth(g, Pred(g, n))

\* C9: on a tree with a single root the hierarchy computation gives every
\* node its depth as level and its unique predecessor as parent_id, and the
\* root a null parent_id.
C9_TreeLevelsAreDepths ==
    (HierarchyDone /\ IsTree(G)) =>
        \A n \in Nodes(G) :
            /\ LevelOf(G, n) = Depth(G, n)
            /\ ParentOf(G, n) = IF n \in Roots(G) THEN None ELSE Pred(G, n)

\* a completed job on a chain of three declared nodes: a grandchild at level 2
C9_Witness ==
    /\ pc = "completed"
    /\ IsTree(G)
    /\ DeclaredIds = Nodes(G)
    /\ \E n \in Nodes(G) : LevelOf(G, n) = 2 /\ LevelOf(G, ParentOf(G, n)) = 1

NoRootCandidate(g) == Nodes(g) # {} /\ \A n \in Nodes(g) : in_degree(g, n) > 0

C11_LayoutFailureFallsBack ==
    /\ pc = "failed" => layout_used = "none"
    /\ pc = "completed" =>
          \A i \in DOMAIN final_data.nodes : {"x", "y"} \subseteq DOMAIN final_data.nodes[i]

\* C12: the layout_engine field of the result metadata tells the two layout
\* strategies apart: the value it has after the force-directed fallback is
\* not the value it has after the pygraphviz dot layout.
C12_MetadataNamesLayoutUsed ==
    pc = "completed" =>
        /\ layout_used = "pygraphviz" => final_data.metadata.layout_engine = "dot"
        /\ layout_used = "spring" => final_data.metadata.layout_engine # "dot"

\* C16: the node list of a successful result is the declared node list, one
\* entry for each declared node and in its order, every entry carrying the
\* declared id, label and description together with x and y coordinates.
C16_ResultNodesAreDeclaredNodes ==
    pc = "completed" =>
        /\ Len(final_data.nodes) = Len(InputNodes)
        /\ \A i \in DOMAIN final_data.nodes :
              /\ NodeKeys \cup {"x", "y"} \subseteq DOMAIN final_data.nodes[i]
              /\ \A k \in NodeKeys : final_data.nodes[i][k] = InputNodes[i][k]

\* C17: a failure of the status store never fails the job: once the pipeline
\* has returned its result and the completed status has been handed to
\* update_job_status, the job is completed and listed completed, whether or
\* not the store took the row, and no failed status follows.
C17_StatusStoreFailureKeepsOutcome ==
    Contains(statuses, "completed") =>
        /\ pc = "completed"
        /\ final_data # NoResult
        /\ statuses = <<"processing", "completed">>
        /\ Len(results) = 1
        /\ results[1].status = "completed"
        /\ Len(status_rows) <= 1

\* the insert of the completed row failed and the job is completed all the same
C17_Witness ==
    /\ pc = "completed"
    /\ Contains(statuses, "completed")
    /\ status_rows = <<>>
    /\ results[1].status = "completed"

EmptyResult == IsJson /\ InputNodes = <<>> /\ InputEdges = <<>>

HasInvalidValue ==
    /\ IsJson
    /\ ~HasDefectiveNode
    /\ \E i \in DOMAIN InputNodes : \E k \in NodeKeys : InputNodes[i][k] \in InvalidValues(k)

\* C19: a node descriptor whose id, label or description is an empty string
\* or not a string fails the build, as a missing field does.
C19_InvalidValueFailsBuild ==
    HasInvalidValue => ~Built

ComputedPos(n) ==
    IF layout_used = "pygraphviz" THEN EnginePos("dot", n)
    ELSE ScaledPos(SpringPositions(G, 0)[n])
Coordinates(entry) == [x |-> entry.x, y |-> entry.y]

\* C21: in a completed job, a node the engine gave no usable position has
\* coordinates (0.0, 0.0), and every other node has the position the engine
\* computed for it; the missing position did not fail the job.
C21_UnplacedNodeAtOrigin ==
    pc = "completed" =>
        /\ Len(final_data.nodes) = Len(G.order)
        /\ \A i \in DOMAIN G.order :
              Coordinates(final_data.nodes[i]) =
                  IF G.order[i] \in no_position THEN ZeroPos ELSE ComputedPos(G.order[i])

\* one node of three without a position, the job completed
C21_Witness ==
    /\ pc = "completed"
    /\ Cardinality(Nodes(G)) = 3
    /\ Cardinality(no_position) = 1
    /\ results[1].status = "completed"

RECURSIVE FirstOccurrences(_, _)
\* the ids of the descriptors from position i on, each at its first occurrence
FirstOccurrences(seen, i) ==
    IF i > Len(InputNodes) THEN <<>>
    ELSE IF InputNodes[i].id \in seen THEN FirstOccurrences(seen, i + 1)
    ELSE <<InputNodes[i].id>> \o FirstOccurrences(seen \cup {InputNodes[i].id}, i + 1)

\* C22: the result lists the nodes in the order their descriptors appear in
\* the generation result (an id at the place of its first descriptor, a node
\* no descriptor declares after all declared ones) and the edges exactly as
\* the generation result lists them.
C22_InputOrderPreserved ==
    pc = "completed" =>
        /\ final_data.edges = InputEdges
        /\ Len(final_data.nodes) >= Len(FirstOccurrences({}, 1))
        /\ \A i \in DOMAIN final_data.nodes :
              IF i <= Len(FirstOccurrences({}, 1))
              THEN /\ "id" \in DOMAIN final_data.nodes[i]
                   /\ final_data.nodes[i]["id"] = FirstOccurrences({}, 1)[i]
              ELSE "id" \notin DOMAIN final_data.nodes[i]

\* three declared nodes and two different edges, the later-declared source first
C22_Witness ==
    /\ pc = "completed"
    /\ Len(FirstOccurrences({}, 1)) = 3
    /\ Len(InputEdges) >= 2
    /\ InputEdges[1].source = "c"
    /\ InputEdges[2].source = "a"
    /\ final_data.edges[1].source = "c"

RECURSIVE ReachableFrom(_, _)
\* the nodes some directed path leads to from a node of S
ReachableFrom(g, S) ==
    IF {v \in Nodes(g) : \E u \in S : Contains(g.adj[u], v)} \subseteq S THEN S
    ELSE ReachableFrom(g, S \cup {v \in Nodes(g) : \E u \in S : Contains(g.adj[u], v)})
Reachable(g) == ReachableFrom(g, Roots(g))

\* C23: when a root candidate exists, every node no root reaches ends the
\* hierarchy computation with level 0 and a null parent_id (a declared node
\* holding exactly these values).
C23_UnreachedKeepDefaults ==
    (HierarchyDone /\ Roots(G) # {}) =>
        \A n \in Nodes(G) \ Reachable(G) :
            /\ LevelOf(G, n) = 0
            /\ ParentOf(G, n) = None
            /\ n \in DeclaredIds => G.attrs[n]["level"] = 0 /\ G.attrs[n]["parent_id"] = None

\* a root and, apart from it, a cycle of two declared nodes
C23_Witness ==
    /\ pc = "completed"
    /\ Roots(G) # {}
    /\ Nodes(G) = DeclaredIds
    /\ Cardinality(Nodes(G) \ Reachable(G)) = 2
    /\ \A n \in Nodes(G) \ Reachable(G) : \E m \in Nodes(G) \ (Reachable(G) \cup {n}) :
          Contains(G.adj[n], m)

\* a step of the traversal assigns a level to at most one node, one it had
\* not visited, and leaves the level of every visited node alone
LevelAssignedOnce ==
    pc = "bfs" =>
        /\ visited \subseteq visited'
        /\ Cardinality(visited' \ visited) <= 1
        /\ \A n \in Nodes(G) :
              n \notin (visited' \ visited) => LevelOf(G', n) = LevelOf(G, n)
        /\ Nodes(G') = Nodes(G)

RECURSIVE PendingEdges(_, _, _)
\* the edges leaving the nodes of S that the traversal has not visited
PendingEdges(g, vis, S) ==
    IF S = {} THEN 0
    ELSE (IF (CHOOSE n \in S : TRUE) \in vis THEN 0 ELSE Len(g.adj[CHOOSE n \in S : TRUE]))
         + PendingEdges(g, vis, S \ {CHOOSE n \in S : TRUE})

\* what the while loop has left to do at most: the entries in the queue and
\* the entries the unvisited nodes can still add to it
WorkLeft(g, q, vis) == Len(q) + PendingEdges(g, vis, Nodes(g))

\* every iteration of the while loop reduces the work left, and the loop is
\* left for the layout step, when the queue is empty
LoopProgresses ==
    pc = "bfs" =>
        /\ WorkLeft(G', queue', visited') < WorkLeft(G, queue, visited)
        /\ pc' = IF queue' = <<>> THEN "layout" ELSE "bfs"

\* C24: the hierarchy computation terminates on every graph, cyclic,
\* self-looping or disconnected: each iteration of its loop reduces a
\* natural-number measure of the work left and the loop ends in the layout
\* step, never in a rejection; every iteration assigns a level to at most
\* one, not yet visited node, and at the end the visited nodes are exactly
\* those a root reaches.
C24_HierarchyTerminates ==
    /\ [][LoopProgresses /\ LevelAssignedOnce]_vars
    /\ [](pc = "bfs" => queue # <<>>)
    /\ []((HierarchyDone /\ Roots(G) # {}) => visited = Reachable(G))

\* a completed job whose graph has a cycle behind its root: every node was
\* visited
C24_Witness ==
    /\ pc = "completed"
    /\ Roots(G) # {}
    /\ \E n \in Reachable(G) : \E m \in Reachable(G) \ {n} :
          Contains(G.adj[n], m) /\ Contains(G.adj[m], n)
    /\ visited = Nodes(G)
    /\ Cardinality(visited) = 3

\* C25: for a graph with zero nodes the layout step invokes no layout
\* algorithm and the result has an empty node list, whichever strategy runs.
C25_EmptyGraphSkipsLayout ==
    (Built /\ Nodes(G) = {} /\ pc \in {"completed", "failed"}) =>
        /\ layout_calls = {}
        /\ pc = "completed"
        /\ final_data.nodes = <<>>

\* C29: after the hierarchy computation every node with a parent_id is one
\* level below its parent, and every root candidate has level 0 and a null
\* parent_id.
C29_LevelIsParentLevelPlusOne ==
    HierarchyDone =>
        /\ \A n \in Nodes(G) :
              ParentOf(G, n) # None => LevelOf(G, n) = LevelOf(G, ParentOf(G, n)) + 1
        /\ \A n \in Roots(G) : LevelOf(G, n) = 0 /\ ParentOf(G, n) = None

RECURSIVE DistFrom(_, _, _, _)
\* the number of edges of a shortest directed path to n from the set S, which
\* is d edges away from the roots; n is reachable
DistFrom(g, n, S, d) ==
    IF n \in S THEN d
    ELSE DistFrom(g, n, S \cup {v \in Nodes(g) : \E u \in S : Contains(g.adj[u], v)}, d + 1)
Dist(g, n) == DistFrom(g, n, Roots(g), 0)

\* C30: when a root candidate exists, the level of every node a root reaches
\* is the length of a shortest directed path to it from a root.
C30_LevelIsShortestDistance ==
    (HierarchyDone /\ Roots(G) # {}) =>
        \A n \in Reachable(G) : LevelOf(G, n) = Dist(G, n)

\* a node reached along two paths of different length: one of its
\* predecessors is at its own level
C30_Witness ==
    /\ pc = "completed"
    /\ \E n \in Reachable(G) : \E m \in Reachable(G) \ {n} :
          /\ Contains(G.adj[m], n)
          /\ LevelOf(G, m) = 1
          /\ LevelOf(G, n) = 1
          /\ Dist(G, n) = 1

-----------------------------------------------------------------------------
(* The handler: process_mindmap_generation as one call *)

\* lines 421-514; lay is the layout environment: "dot" (pygraphviz works),
\* "import_error", "dot_raises"
LayoutAndAssemble(data, g, lay) ==
    IF lay = "dot_raises" THEN [ok |-> FALSE, error |-> "layout error"]
    ELSE [ok |-> TRUE,
          data |-> FinalData(data, IF lay = "dot" THEN DotPositionedNodes(g, {})
                                   ELSE SpringPositionedNodes(g, 0))]

\* lines 378-514
AfterBuild(data, b, lay) ==
    IF ~b.ok THEN [ok |-> FALSE, error |-> "KeyError"]
    ELSE LayoutAndAssemble(data, ComputeHierarchy(b.G), lay)

\* lines 246-514; client is the global genai_client
process_mindmap_generation(resp, client, lay) ==
    IF client = None \/ resp.kind = "raise"
    THEN [ok |-> FALSE, error |-> "AI generation failed"]
    ELSE IF resp.kind = "bad_json"
    THEN [ok |-> FALSE, error |-> "Invalid JSON response from AI"]
    ELSE IF MissingRequired(resp.data)
    THEN [ok |-> FALSE, error |-> "AI response missing required 'nodes' or 'edges' fields"]
    ELSE AfterBuild(resp.data, BuildGraph(resp.data), lay)

\* what the generation service and the layout environment do for one job
SampleTree == JsonOf(<<MkNode("a", 1), MkNode("b", 2)>>, <<MkEdge("a", "b")>>)
PipelineCases ==
    {[resp |-> SampleTree, lay |-> "dot"],
     [resp |-> [kind |-> "raise"], lay |-> "dot"]}
DefaultCase == [resp |-> SampleTree, lay |-> "dot"]

-----------------------------------------------------------------------------
(* Events *)

JobIds == {"j1", "j2"}
MaxBatch == 2      \* most records of one SQS event

Get(d, k) == IF k \in DOMAIN d THEN d[k] ELSE None

\* message bodies: record['body'] once read by json.loads
Malformed == [malformed |-> TRUE]
Msg(j) == [jobId |-> j, subject |-> "s"]
MessageBodies == {Msg(j) : j \in JobIds} \cup {[subject |-> "s"], Malformed}

SqsEvents == {[kind |-> "sqs", Records |-> r] : r \in SeqsUpTo(MessageBodies, MaxBatch) \ {<<>>}}
ApiEvents == {[kind |-> "api", body |-> b] : b \in {Msg("j1"), [subject |-> "s"], [jobId |-> "j1"]}}
Events == SqsEvents \cup ApiEvents

-----------------------------------------------------------------------------
(* handle_sqs_event, lines 635-732 *)

\* a local variable before its first assignment
Unbound == "<unbound>"

\* the locals of handle_sqs_event, with what it has done so far: calls are its
\* update_job_status calls, ran the job ids it called the pipeline for, failed
\* those among them whose pipeline call raised, raised the exception leaving it
LoopStart ==
    [job_id |-> Unbound, results |-> <<>>, calls |-> <<>>, ran |-> <<>>, failed |-> <<>>,
     raised |-> None]

ReachesPipeline(body) ==
    /\ "malformed" \notin DOMAIN body
    /\ Get(body, "jobId") # None
    /\ Get(body, "subject") # None

\* lines 681-718: an except clause of the message's try; it reads the local job_id
ExceptClause(st, error_msg) ==
    IF st.job_id = Unbound
    THEN [st EXCEPT !.raised = "UnboundLocalError"]
    ELSE [st EXCEPT !.calls = Append(@, <<st.job_id, "failed">>),
                    !.results = Append(@, [job_id |-> st.job_id, status |-> "failed",
                                           error |-> error_msg])]

\* lines 672-679, or the except clause when the pipeline raised
AfterPipeline(st, job_id, r) ==
    IF r.ok
    THEN [st EXCEPT !.calls = Append(@, <<job_id, "completed">>),
                    !.results = Append(@, [job_id |-> job_id, status |-> "completed",
                                           node_count |-> Len(r.data.nodes)])]
    ELSE ExceptClause([st EXCEPT !.failed = Append(@, job_id)], r.error)

\* lines 666-679
ProcessJob(st, job_id, case, client) ==
    AfterPipeline([st EXCEPT !.calls = Append(@, <<job_id, "processing">>),
                             !.ran = Append(@, job_id)],
                  job_id,
                  process_mindmap_generation(case.resp, client, case.lay))

\* lines 646-718: the body of the for loop for one record
HandleRecord(st, body, case, client) ==
    IF "malformed" \in DOMAIN body
    THEN ExceptClause(st, "JSONDecodeError")
    ELSE IF Get(body, "jobId") = None \/ Get(body, "subject") = None
    THEN [st EXCEPT !.job_id = Get(body, "jobId")]
    ELSE ProcessJob([st EXCEPT !.job_id = Get(body, "jobId")], Get(body, "jobId"), case, client)

\* lines 645-718: the for loop; an exception leaving an except clause ends it
RECURSIVE RecordLoop(_, _, _, _, _)
RecordLoop(st, records, cases, client, i) ==
    IF i > Len(records) \/ st.raised # None THEN st
    ELSE RecordLoop(HandleRecord(st, records[i], cases[i], client), records, cases, client, i + 1)

\* lines 720-732, or the exception that left the loop
SqsOutcome(st) ==
    IF st.raised # None
    THEN [kind |-> "raised", error |-> st.raised, calls |-> st.calls, ran |-> st.ran,
          failed |-> st.failed, results |-> st.results, sent |-> {}]
    ELSE [kind |-> "returned",
          response |-> [statusCode |-> 200,
                        body |-> [processed_jobs |-> Len(st.results), results |-> st.results]],
          calls |-> st.calls, ran |-> st.ran, failed |-> st.failed, results |-> st.results,
          sent |-> {}]

\* lines 635-732; initialize_clients has set the global clients
handle_sqs_event(event, cases) ==
    SqsOutcome(RecordLoop(LoopStart, event.Records, cases, "client", 1))

-----
(* handle_api_event, lines 543-633 *)

\* line 555
GeneratedJobId(t) == "api-" \o ToString(t * 1000)

ApiReturn(code, body, ran, failed, msgs) ==
    [kind |-> "returned", response |-> [statusCode |-> code, body |-> body],
     calls |-> <<>>, ran |-> ran, failed |-> failed, results |-> <<>>, sent |-> msgs]

\* lines 603-633
ApiSyncResponse(job_id, r) ==
    IF r.ok
    THEN ApiReturn(200, [jobId |-> job_id, status |-> "completed", data |-> r.data,
                         success |-> TRUE], <<job_id>>, <<>>, {})
    ELSE ApiReturn(500, [error |-> r.error, success |-> FALSE], <<job_id>>, <<job_id>>, {})

\* lines 554-633
ApiWithJobId(job_id, subject, case, client, qurl, t) ==
    IF subject = None
    THEN ApiReturn(400, [error |-> "Missing required field: subject", success |-> FALSE],
                   <<>>, <<>>, {})
    ELSE IF qurl # None
    THEN ApiReturn(202, [jobId |-> job_id, status |-> "queued", success |-> TRUE], <<>>, <<>>,
                   {[jobId |-> job_id, subject |-> subject, timestamp |-> t]})
    ELSE ApiSyncResponse(job_id, process_mindmap_generation(case.resp, client, case.lay))

handle_api_event(event, case, client, qurl, t) ==
    ApiWithJobId(IF Get(event.body, "jobId") = None THEN GeneratedJobId(t)
                 ELSE Get(event.body, "jobId"),
                 Get(event.body, "subject"), case, client, qurl, t)

-----
(* The idempotent decorator, lines 37-55 and 516-518 *)

expires_after_seconds == 3600
TickStep == 3601   \* seconds the clock advances at a time: more than the TTL
MaxNow == 3601     \* the clock stops here

\* event_key_jmespath = 'Records[0].body', hashed
IdempotencyKey(event) ==
    IF "Records" \in DOMAIN event /\ Len(event.Records) >= 1
    THEN [present |-> TRUE, md5 |-> event.Records[1]]
    ELSE [present |-> FALSE]
HasKey(k) == k.present

\* mutant: the put is unconditional
PutWins_Always(tbl, k, t) == TRUE

\* the conditional put of save_inprogress succeeds on these
PutWins(tbl, k, t) == k \notin DOMAIN tbl \/ tbl[k].expiration < t

\* the decorator's entry: no key (raise_on_no_idempotency_key = False) runs the
\* handler unguarded; otherwise one conditional put decides
Begin(a, event) ==
    /\ act[a].phase = "idle"
    /\ LET k == IdempotencyKey(event)
       IN IF ~HasKey(k)
          THEN /\ act' = [act EXCEPT ![a] = [phase |-> "running", event |-> event, key |-> k]]
               /\ UNCHANGED store
          ELSE IF PutWins(store, k, now)
          THEN /\ store' = DictSet(store, k, [status |-> "INPROGRESS",
                                               expiration |-> now + expires_after_seconds,
                                               data |-> NoResult])
               /\ act' = [act EXCEPT ![a] = [phase |-> "running", event |-> event, key |-> k]]
          ELSE /\ act' = [act EXCEPT ![a] =
                            [phase |-> "done", event |-> event, key |-> k, guarded |-> TRUE,
                             out |-> IF store[k].status = "INPROGRESS"
                                     THEN [kind |-> "raised",
                                           error |-> "IdempotencyAlreadyInProgressError",
                                           calls |-> <<>>, ran |-> <<>>, failed |-> <<>>,
                                           results |-> <<>>, sent |-> {}]
                                     ELSE [kind |-> "cached", response |-> store[k].data,
                                           calls |-> <<>>, ran |-> <<>>, failed |-> <<>>,
                                           results |-> <<>>, sent |-> {}]]]
               /\ UNCHANGED store
    /\ UNCHANGED <<now, genai_client, queue_url, sent>>
    /\ UNCHANGED pvars

\* lines 536-541
handler(event, cases, client, qurl, t) ==
    IF "Records" \in DOMAIN event /\ event.Records # <<>>
    THEN handle_sqs_event(event, cases)
    ELSE handle_api_event(event, cases[1], client, qurl, t)

\* the decorator's exit: a returned response is saved COMPLETED, an exception
\* deletes the record and is re-raised
SaveOutcome(tbl, k, out, t) ==
    IF ~HasKey(k) THEN tbl
    ELSE IF out.kind = "returned"
    THEN DictSet(tbl, k, [status |-> "COMPLETED", expiration |-> t + expires_after_seconds,
                          data |-> out.response])
    ELSE DictDel(tbl, k)

CaseChoices(event) ==
    IF event.kind = "sqs"
    THEN {c \in [DOMAIN event.Records -> PipelineCases] :
             \A i \in DOMAIN c : ~ReachesPipeline(event.Records[i]) => c[i] = DefaultCase}
    ELSE [{1} -> PipelineCases]

\* the handler body runs and the decorator records its outcome
Finish(a) ==
    /\ act[a].phase = "running"
    /\ \E cases \in CaseChoices(act[a].event) :
          act' = [act EXCEPT ![a] =
                     [phase |-> "done", event |-> act[a].event, key |-> act[a].key,
                      guarded |-> FALSE, cases |-> cases,
                      out |-> handler(act[a].event, cases, genai_client, queue_url, now)]]
    /\ store' = SaveOutcome(store, act[a].key, act'[a].out, now)
    /\ sent' = sent \cup act'[a].out.sent
    /\ genai_client' = IF act[a].event.kind = "sqs" THEN "client" ELSE genai_client
    /\ UNCHANGED <<now, queue_url>>
    /\ UNCHANGED pvars

\* Time passes. The step is longer than the host lets an activation run, so
\* an activation still running has been ended by the host: its record stays
\* INPROGRESS in the table until it expires.
Tick ==
    /\ now < MaxNow
    /\ now' = now + TickStep
    /\ act' = [a \in Acts |-> IF act[a].phase = "running"
                               THEN [act[a] EXCEPT !.phase = "timed_out"]
                               ELSE act[a]]
    /\ UNCHANGED <<store, genai_client, queue_url, sent>>
    /\ UNCHANGED pvars

Init ==
    /\ now = 0
    /\ store = EmptyDict
    /\ act = [a \in Acts |-> IdleAct]
    /\ genai_client = None
    /\ queue_url \in {None, "https://sqs/queue"}
    /\ sent = {}
    /\ response = [kind |-> "raise"]
    /\ PipelineIdle

Next ==
    \/ \E a \in Acts, e \in Events : Begin(a, e)
    \/ \E a \in Acts : Finish(a)
    \/ Tick

Spec == Init /\ [][Next]_vars

-----------------------------------------------------------------------------
(* Claims about the handler, checked under Spec *)

Done(a) == act[a].phase = "done"
Ran(a) == Done(a) /\ ~act[a].guarded
Count(s, x) == Cardinality({i \in DOMAIN s : s[i] = x})
RunsOf(a, j) == IF Done(a) THEN Count(act[a].out.ran, j) ELSE 0
RECURSIVE SumRuns(_, _)
SumRuns(S, j) ==
    IF S = {} THEN 0
    ELSE LET a == CHOOSE x \in S : TRUE IN RunsOf(a, j) + SumRuns(S \ {a}, j)
\* calls of process_mindmap_generation for job id j so far
Runs(j) == SumRuns(Acts, j)

\* C1: within the TTL window the pipeline runs at most once for a job id,
\* whatever the intake path of its submissions.
C1_PipelineOncePerJobId ==
    now < expires_after_seconds => \A j \in JobIds : Runs(j) <= 1

\* C2: of the activations carrying one dedup key, at most one is past the
\* idempotency check-and-create and executing at any time; an activation that
\* lost the check ran no pipeline and reported no status.
C2_OneWinnerPerKey ==
    /\ \A a, b \in Acts :
          (a # b /\ act[a].phase = "running" /\ act[b].phase = "running"
                 /\ HasKey(act[a].key) /\ HasKey(act[b].key))
              => act[a].key # act[b].key
    /\ \A a \in Acts :
          (Done(a) /\ act[a].guarded) => (act[a].out.ran = <<>> /\ act[a].out.calls = <<>>)

\* one activation is executing and the other, with the same key, was turned
\* away with the in-progress error
C2_Witness ==
    \E a, b \in Acts :
        /\ act[a].phase = "running"
        /\ HasKey(act[a].key)
        /\ Done(b)
        /\ act[b].key = act[a].key
        /\ act[b].guarded
        /\ act[b].out.kind = "raised"
        /\ act[b].out.error = "IdempotencyAlreadyInProgressError"

\* the records of a batch that the loop has to give an outcome
Handled(records) ==
    {i \in DOMAIN records : "malformed" \in DOMAIN records[i] \/ ReachesPipeline(records[i])}

\* C3: the batch handler returns normally whatever exception the handling of
\* a message raises, and every message that was to be handled has its outcome
\* recorded.
C3_BatchIsolatesFailures ==
    \A a \in Acts :
        (Ran(a) /\ act[a].event.kind = "sqs") =>
            /\ act[a].out.kind = "returned"
            /\ Len(act[a].out.results) = Cardinality(Handled(act[a].event.Records))

\* C4: in batch and in synchronous mode, a job whose pipeline raised is
\* reported failed to the status store under its job id.
C4_FailureReported ==
    \A a \in Acts :
        Ran(a) => \A i \in DOMAIN act[a].out.failed :
                      Contains(act[a].out.calls, <<act[a].out.failed[i], "failed">>)

\* the generation service and the layout engine serve the request of a
SyncCaseWorks(a) ==
    process_mindmap_generation(act[a].cases[1].resp, "client", act[a].cases[1].lay).ok

\* C13: a synchronous request with a subject, made when no queue is
\* configured, is answered 200 with status completed and the full result
\* data, whenever the generation service and the layout engine work; also
\* when it is the first request the process serves.
C13_SyncReturnsFullResult ==
    \A a \in Acts :
        (/\ Ran(a)
         /\ act[a].event.kind = "api"
         /\ Get(act[a].event.body, "subject") # None
         /\ queue_url = None
         /\ SyncCaseWorks(a))
        => /\ act[a].out.response.statusCode = 200
           /\ act[a].out.response.body.status = "completed"
           /\ {"nodes", "edges", "metadata"} \subseteq DOMAIN act[a].out.response.body.data

\* the update_job_status calls for the job id of call i that precede call i
EarlierCalls(calls, i) == {k \in 1..(i - 1) : calls[k][1] = calls[i][1]}
\* the status reported for that job id just before call i
PreviousStatus(calls, i) ==
    IF EarlierCalls(calls, i) = {} THEN None
    ELSE calls[CHOOSE k \in EarlierCalls(calls, i) : \A m \in EarlierCalls(calls, i) : m <= k][2]

\* C14: every completed or failed status reported for a job id directly
\* follows a processing status reported for that same job id.
C14_TerminalFollowsProcessing ==
    \A a \in Acts :
        Ran(a) => \A i \in DOMAIN act[a].out.calls :
                      (/\ act[a].out.calls[i][1] \in JobIds
                       /\ act[a].out.calls[i][2] \in {"completed", "failed"})
                          => PreviousStatus(act[a].out.calls, i) = "processing"

\* C15: a batch that the handler returns from has one outcome entry for each
\* inbound message, and its processed count is the number of inbound messages.
C15_OneOutcomePerMessage ==
    \A a \in Acts :
        (Ran(a) /\ act[a].event.kind = "sqs" /\ act[a].out.kind = "returned") =>
            /\ Len(act[a].out.response.body.results) = Len(act[a].event.Records)
            /\ act[a].out.response.body.processed_jobs = Len(act[a].event.Records)

\* C26: the response to a synchronous request that failed carries the job
\* id, status failed and the error message.
C26_SyncFailureNamesJob ==
    \A a \in Acts :
        (/\ Ran(a)
         /\ act[a].event.kind = "api"
         /\ act[a].out.response.statusCode = 500)
        => /\ {"jobId", "status", "error"} \subseteq DOMAIN act[a].out.response.body
           /\ act[a].out.response.body["status"] = "failed"
           /\ act[a].out.response.body["jobId"] =
                  IF Get(act[a].event.body, "jobId") = None THEN GeneratedJobId(now)
                  ELSE Get(act[a].event.body, "jobId")

\* the failed entries of an outcome list, and the failed reports, under job id j
FailedEntries(results_, j) ==
    Cardinality({i \in DOMAIN results_ : results_[i].status = "failed" /\ results_[i].job_id = j})
FailedReports(calls, j) == Count(calls, <<j, "failed">>)

\* C27: in a batch, the failed reports and the failed outcome entries under
\* a job id are those of the messages of that job id whose handling raised:
\* one each for every pipeline call for it that raised, and no other.
C27_FailureCarriesOwnJobId ==
    \A a \in Acts :
        (Ran(a) /\ act[a].event.kind = "sqs") =>
            \A j \in JobIds :
                /\ FailedEntries(act[a].out.results, j) = Count(act[a].out.failed, j)
                /\ FailedReports(act[a].out.calls, j) = Count(act[a].out.failed, j)

\* no two messages of the batch name the same job id
DistinctJobIds(records) ==
    \A i, k \in DOMAIN records :
        (i < k /\ Get(records[i], "jobId") # None)
            => Get(records[i], "jobId") # Get(records[k], "jobId")

\* C28: in a batch whose messages name different job ids, nothing is
\* reported for a job id after its completed status, and no job id is listed
\* both completed and failed in the outcome list.
C28_CompletedIsTerminal ==
    \A a \in Acts :
        (Ran(a) /\ act[a].event.kind = "sqs" /\ DistinctJobIds(act[a].event.Records)) =>
            /\ \A i, k \in DOMAIN act[a].out.calls :
                  (i < k /\ act[a].out.calls[i][2] = "completed")
                      => act[a].out.calls[k][1] # act[a].out.calls[i][1]
            /\ \A i, k \in DOMAIN act[a].out.results :
                  (act[a].out.results[i].status = "completed"
                       /\ act[a].out.results[k].status = "failed")
                      => act[a].out.results[k].job_id # act[a].out.results[i].job_id

-----------------------------------------------------------------------------
(* The two renderings of the pipeline agree: what SpecPipeline reaches step  *)
(* by step is what process_mindmap_generation yields in one call.            *)

PipelineRenderingsAgree ==
    /\ (pc = "completed" /\ layout_used = "spring") =>
          process_mindmap_generation(response, "client", "import_error")
              = [ok |-> TRUE, data |-> final_data]
    /\ (pc = "completed" /\ layout_used = "pygraphviz") =>
          process_mindmap_generation(response, "client", "dot").ok
    /\ (pc = "failed" /\ layout_used = "none") =>
          process_mindmap_generation(response, "client", "dot")
              = [ok |-> FALSE, error |-> results[1].error]
    /\ (pc = "failed" /\ layout_used # "none") =>
          process_mindmap_generation(response, "client", "dot_raises")
              = [ok |-> FALSE, error |-> results[1].error]

====
